---- MODULE Spec2Model ----
(***************************************************************************)
(* Model of src/student_analysis.py: the run_pipeline() sequence           *)
(*   load_data -> get_subject_columns -> clean_data -> student_metrics ->  *)
(*   assign_grade -> student_consistency -> strongest_weakest_subject ->   *)
(*   subject_metrics -> get_top_bottom_students -> plots ->                *)
(*   generate_insights -> export_to_excel                                  *)
(* over small CSV tables.                                                  *)
(*                                                                         *)
(* Numbers.  pandas computes in float64; the model computes in exact       *)
(* rationals [n |-> numerator, d |-> denominator] kept in lowest terms     *)
(* with d > 0.  float NaN is the value NaN == [n |-> 0, d |-> 0].          *)
(* Square roots have no exact value, so every standard deviation is held   *)
(* as its square (the variance); sqrt is injective on the non-negative     *)
(* numbers, so equalities and orderings of deviations are preserved.       *)
(***************************************************************************)
EXTENDS Integers, Sequences, FiniteSets, TLC

\* Every file of at most MaxStudents data rows over CsvCells is explored
\* (and the longer files of SampleFiles).
MaxStudents == 2

VARIABLES
    csv,            \* the input file: [columns, rows]; never changes
    pc,             \* position inside run_pipeline
    df,             \* run_pipeline's df: rows (subject -> cell)
    subjects,       \* run_pipeline's subjects (column order)
    students,       \* run_pipeline's students: sequence of records
    subject_stats,  \* run_pipeline's subject_stats: one record per subject
    top_students,   \* first result of get_top_bottom_students
    bottom_students,\* second result of get_top_bottom_students
    insights,       \* what generate_insights printed
    excel,          \* the sheets export_to_excel wrote
    error           \* the exception that ended the run, "" if none

vars == <<csv, pc, df, subjects, students, subject_stats, top_students,
          bottom_students, insights, excel, error>>

(***************************************************************************)
(* Exact rational arithmetic standing in for float64.                      *)
(***************************************************************************)
RECURSIVE GCD(_, _)
GCD(a, b) == IF b = 0 THEN a ELSE GCD(b, a % b)

Abs(x) == IF x < 0 THEN -x ELSE x

NaN == [n |-> 0, d |-> 0]

IsNaN(x) == x.d = 0

Norm(num, den) ==
    LET g == GCD(Abs(num), den)
    IN  [n |-> num \div g, d |-> den \div g]

R(k) == [n |-> k, d |-> 1]

RAdd(a, b) == Norm(a.n * b.d + b.n * a.d, a.d * b.d)

RSub(a, b) == Norm(a.n * b.d - b.n * a.d, a.d * b.d)

RMul(a, b) == Norm(a.n * b.n, a.d * b.d)

RDivInt(a, k) == Norm(a.n, a.d * k)

\* float comparisons: every comparison with NaN is False.
RLt(a, b) == ~IsNaN(a) /\ ~IsNaN(b) /\ a.n * b.d < b.n * a.d

RGe(a, b) == ~IsNaN(a) /\ ~IsNaN(b) /\ a.n * b.d >= b.n * a.d

RGt(a, b) == RLt(b, a)

RSign(a) == IF a.n > 0 THEN 1 ELSE IF a.n < 0 THEN -1 ELSE 0

(***************************************************************************)
(* Sequence helpers.                                                       *)
(***************************************************************************)
Range(s) == {s[i] : i \in DOMAIN s}

Head_n(s, k) == SubSeq(s, 1, IF k < Len(s) THEN k ELSE Len(s))

\* The non-NaN entries of a sequence of numbers, in order (skipna=True).
Valid(xs) == SelectSeq(xs, LAMBDA x : ~IsNaN(x))

RECURSIVE SumSeq(_)
SumSeq(xs) == IF xs = <<>> THEN R(0) ELSE RAdd(Head(xs), SumSeq(Tail(xs)))

RECURSIVE SumPow(_, _, _)
\* sum of (x - m)^p over the sequence
SumPow(xs, m, p) ==
    IF xs = <<>> THEN R(0)
    ELSE LET dlt == RSub(Head(xs), m)
             t   == IF p = 2 THEN RMul(dlt, dlt) ELSE RMul(dlt, RMul(dlt, dlt))
         IN  RAdd(t, SumPow(Tail(xs), m, p))

\* Series.sum / DataFrame.sum(axis=1): NaN skipped, the empty sum is 0.
pd_sum(xs) == SumSeq(Valid(xs))

\* Series.mean / DataFrame.mean(axis=1): NaN skipped, the empty mean is NaN.
pd_mean(xs) ==
    LET v == Valid(xs)
    IN  IF Len(v) = 0 THEN NaN ELSE RDivInt(SumSeq(v), Len(v))

\* The square of Series.std(ddof) / DataFrame.std(axis=1, ddof): NaN skipped,
\* NaN when the divisor count - ddof is not positive.
pd_var(xs, ddof) ==
    LET v == Valid(xs)
    IN  IF Len(v) - ddof <= 0 THEN NaN
        ELSE RDivInt(SumPow(v, pd_mean(v), 2), Len(v) - ddof)

RECURSIVE pd_extreme(_, _)
\* Series.min (isMax = FALSE) / Series.max (isMax = TRUE): NaN skipped.
pd_extreme(xs, isMax) ==
    LET v == Valid(xs)
    IN  IF Len(v) = 0 THEN NaN
        ELSE IF Len(v) = 1 THEN v[1]
        ELSE LET r == pd_extreme(Tail(v), isMax)
             IN  IF isMax THEN (IF RGe(v[1], r) THEN v[1] ELSE r)
                 ELSE (IF RGe(r, v[1]) THEN v[1] ELSE r)

\* The sign of Series.skew(): NaN for fewer than 3 values, 0 for zero
\* variance, else the sign of the third central moment (the positive
\* normalising factors of the estimator do not change the sign).
pd_skew_sign(xs) ==
    LET v == Valid(xs)
    IN  IF Len(v) < 3 THEN NaN
        ELSE R(RSign(SumPow(v, pd_mean(v), 3)))

\* The label idxmax / idxmin puts where every value is NaN.
NoLabel == "NaN"

\* idxmax (isMax = TRUE) / idxmin: the label of the first position holding
\* the extreme of the non-NaN values; NoLabel when there is none.
pd_idx(labels, xs, isMax) ==
    LET e == pd_extreme(xs, isMax)
    IN  IF IsNaN(e) THEN NoLabel
        ELSE labels[CHOOSE i \in DOMAIN xs :
                       /\ xs[i] = e
                       /\ \A j \in DOMAIN xs : xs[j] = e => i <= j]

(***************************************************************************)
(* Input files.                                                            *)
(***************************************************************************)
\* The header rows explored: subjects between identifier columns, one
\* subject, identifier columns missing, no subject at all.
Layouts ==
    { <<"StudentID", "Name", "Math", "Class", "Section", "Sci">>,
      <<"StudentID", "Name", "Class", "Section", "Math">>,
      <<"Name", "Math", "Class">>,
      <<"StudentID", "Name", "Class", "Section">> }

\* The text of a subject cell in the file: numbers, a number padded with
\* blanks, text that is no number.  read_csv already parses a column of
\* numbers only; to_numeric then leaves it as it is, so the model keeps the
\* cell texts until clean_data and converts there in both cases.
CsvCells == {"40", " 60 ", "90", "bad"}

non_subjects == {"StudentID", "Name", "Class", "Section"}

\* get_subject_columns: the columns outside non_subjects, in column order.
get_subject_columns(columns) ==
    SelectSeq(columns, LAMBDA c : c \notin non_subjects)

\* Longer files: the table of three students with one cell that is no
\* number, and a table where two students share the highest total.
SampleFiles ==
    { [columns |-> <<"StudentID", "Name", "Math", "Class", "Section", "Sci">>,
       rows    |-> << [Math |-> "90",  Sci |-> "80"],
                      [Math |-> " 60 ", Sci |-> "40"],
                      [Math |-> "bad", Sci |-> "100"] >>],
      [columns |-> <<"StudentID", "Name", "Math", "Class", "Section", "Sci">>,
       rows    |-> << [Math |-> "90",  Sci |-> "40"],
                      [Math |-> "40",  Sci |-> "90"],
                      [Math |-> " 60 ", Sci |-> " 60 "] >>] }

\* The files explored.
CsvFiles ==
    SampleFiles \cup
    UNION { UNION { { [columns |-> columns, rows |-> rows] :
                        rows \in [1..n -> [Range(get_subject_columns(columns))
                                          -> CsvCells]] } :
                    n \in 0..MaxStudents } :
            columns \in Layouts }

\* str.strip() on the cell texts of the model.
strip(text) == IF text = " 60 " THEN "60" ELSE text

\* pd.to_numeric(errors='coerce') on one stripped cell: the number a numeric
\* text denotes, NaN for anything else.
to_numeric(text) ==
    CASE text = "40" -> R(40)
      [] text = "60" -> R(60)
      [] text = "80" -> R(80)
      [] text = "90" -> R(90)
      [] text = "100" -> R(100)
      [] OTHER       -> NaN

\* Column s of a table, as a sequence over the rows.
Column(table, s) == [i \in DOMAIN table |-> table[i][s]]

\* The subject cells of one row, in the order of subjs.
Marks(row, subjs) == [j \in DOMAIN subjs |-> row[subjs[j]]]

\* Series.fillna(value): NaN cells take value (which may itself be NaN).
fillna(col, value) == [i \in DOMAIN col |-> IF IsNaN(col[i]) THEN value ELSE col[i]]

\* clean_data as it would be if the fill value were the column's sum
\* divided by the number of rows, invalid cells included.
clean_data_mean_over_all_rows(table, subjs) ==
    LET coerced(s) == [i \in DOMAIN table |-> to_numeric(strip(table[i][s]))]
        fill(s)    == IF Len(table) = 0 THEN NaN
                      ELSE RDivInt(pd_sum(coerced(s)), Len(table))
    IN  [i \in DOMAIN table |->
            [s \in Range(subjs) |-> fillna(coerced(s), fill(s))[i]]]

\* clean_data: strip the text cells, coerce each subject column to numbers
\* and fill its NaN cells with the mean of the column after coercion.
clean_data(table, subjs) ==
    LET coerced(s) == [i \in DOMAIN table |-> to_numeric(strip(table[i][s]))]
        cleaned(s) == fillna(coerced(s), pd_mean(coerced(s)))
    IN  [i \in DOMAIN table |-> [s \in Range(subjs) |-> cleaned(s)[i]]]

(***************************************************************************)
(* Student metrics.                                                        *)
(***************************************************************************)
RECURSIVE InsertDesc(_, _)
InsertDesc(x, sorted) ==
    IF sorted = <<>> THEN <<x>>
    ELSE IF RGe(x, Head(sorted)) THEN <<x>> \o sorted
    ELSE <<Head(sorted)>> \o InsertDesc(x, Tail(sorted))

RECURSIVE SortDesc(_)
SortDesc(xs) == IF xs = <<>> THEN <<>> ELSE InsertDesc(Head(xs), SortDesc(Tail(xs)))

\* rank_min_descending as it would be with method='dense': 1 plus the number
\* of distinct greater values.
rank_dense_descending(xs) ==
    [i \in DOMAIN xs |->
        1 + Cardinality({xs[j] : j \in {k \in DOMAIN xs : RGt(xs[k], xs[i])}})]

\* Series.rank(method='min', ascending=False): the values are laid out in
\* descending order and each takes the lowest position its group of equal
\* values occupies.
rank_min_descending(xs) ==
    LET sorted == SortDesc(xs)
    IN  [i \in DOMAIN xs |->
            CHOOSE p \in DOMAIN sorted :
                /\ sorted[p] = xs[i]
                /\ \A q \in DOMAIN sorted : sorted[q] = xs[i] => p <= q]

\* student_metrics: a copy of the table with Total, Average and Rank added.
\* Index is the row label of the DataFrame, which every later copy keeps.
student_metrics(table, subjs) ==
    LET total == [i \in DOMAIN table |-> pd_sum(Marks(table[i], subjs))]
        rank  == rank_min_descending(total)
    IN  [i \in DOMAIN table |->
            table[i] @@ [Index   |-> i,
                         Total   |-> total[i],
                         Average |-> pd_mean(Marks(table[i], subjs)),
                         Rank    |-> rank[i]]]

\* assign_grade as it would be with strict comparisons.
assign_grade_strict(avg) ==
    IF RGt(avg, R(90)) THEN "A"
    ELSE IF RGt(avg, R(75)) THEN "B"
    ELSE IF RGt(avg, R(60)) THEN "C"
    ELSE "D"

\* assign_grade
assign_grade(avg) ==
    IF RGe(avg, R(90)) THEN "A"
    ELSE IF RGe(avg, R(75)) THEN "B"
    ELSE IF RGe(avg, R(60)) THEN "C"
    ELSE "D"

\* students['Grade'] = students['Average'].apply(assign_grade)
apply_grade(recs) ==
    [i \in DOMAIN recs |-> recs[i] @@ [Grade |-> assign_grade(recs[i].Average)]]

\* student_consistency: DataFrame.std(axis=1) with its default ddof = 1.
\* The Consistency field holds the square of the deviation.
student_consistency(recs, subjs) ==
    [i \in DOMAIN recs |->
        recs[i] @@ [Consistency |-> pd_var(Marks(recs[i], subjs), 1)]]

\* strongest_weakest_subject as it would be without its second assignment.
strongest_subject_only(recs, subjs) ==
    [i \in DOMAIN recs |->
        recs[i] @@ [Strongest_Subject |-> pd_idx(subjs, Marks(recs[i], subjs), TRUE)]]

\* strongest_weakest_subject: idxmax / idxmin along each row.
strongest_weakest_subject(recs, subjs) ==
    [i \in DOMAIN recs |->
        recs[i] @@ [Strongest_Subject |-> pd_idx(subjs, Marks(recs[i], subjs), TRUE),
                    Weakest_Subject   |-> pd_idx(subjs, Marks(recs[i], subjs), FALSE)]]

\* A row idxmax / idxmin finds no value in: the result is the NA label in
\* pandas before 3.0 and a ValueError from 3.0 on.
HasEmptyRow(recs, subjs) ==
    \E i \in DOMAIN recs : Valid(Marks(recs[i], subjs)) = <<>>

(***************************************************************************)
(* Subject metrics.                                                        *)
(***************************************************************************)
\* subject_metrics: one row per subject, in the order of subjs; Std is the
\* square of std(ddof=0), Skew the sign of skew().
subject_metrics(table, subjs) ==
    [j \in DOMAIN subjs |->
        LET arr == Column(table, subjs[j])
        IN  [Subject |-> subjs[j],
             Mean    |-> pd_mean(arr),
             Std     |-> pd_var(arr, 0),
             Min     |-> pd_extreme(arr, FALSE),
             Max     |-> pd_extreme(arr, TRUE),
             Skew    |-> pd_skew_sign(arr)]]

(***************************************************************************)
(* Top / bottom selection.                                                 *)
(***************************************************************************)
\* The default of get_top_bottom_students' parameter top_n.
top_n_default == 5

Permutations_of(n) ==
    {p \in [1..n -> 1..n] : \A i, j \in 1..n : p[i] = p[j] => i = j}

\* a may stand before b in a frame sorted by Average: NaN goes last
\* (na_position='last') whatever the direction.
MayPrecede(a, b, ascending) ==
    \/ IsNaN(b)
    \/ /\ ~IsNaN(a)
       /\ IF ascending THEN RGe(b, a) ELSE RGe(a, b)

\* DataFrame.sort_values(by='Average', ascending): the default
\* kind='quicksort' is not a stable sort, so rows with equal Average may
\* come out in any order.  The set of the frames the call can return.
sort_values(recs, ascending) ==
    { [k \in DOMAIN recs |-> recs[p[k]]] :
        p \in { q \in Permutations_of(Len(recs)) :
                  \A i, j \in DOMAIN recs :
                     i < j => MayPrecede(recs[q[i]].Average, recs[q[j]].Average,
                                         ascending) } }

\* get_top_bottom_students: the pairs <<top, bottom>> the call can return.
get_top_bottom_students(recs, top_n) ==
    { <<Head_n(t, top_n), Head_n(b, top_n)>> :
        t \in sort_values(recs, FALSE), b \in sort_values(recs, TRUE) }

(***************************************************************************)
(* Plots and insights.                                                     *)
(***************************************************************************)
\* The answers ask_plot_choice can return: "1", "2", "3", anything else.
PlotChoices == {"1", "2", "3", "other"}

\* plot_histograms: plt.hist of a column holding NaN fails in numpy's
\* histogram with a ValueError in some builds and draws nothing in others.
plot_histograms(table, subjs) ==
    IF \E i \in DOMAIN table : \E s \in Range(subjs) : IsNaN(table[i][s])
    THEN {"", "ValueError"} ELSE {""}

\* plot_average_bar: subj_df['Mean'] is a KeyError on the frame built from
\* no subject at all.
plot_average_bar(subj_df) == IF subj_df = <<>> THEN {"KeyError"} ELSE {""}

\* plot_boxplot: a box plot of no column fails in some builds.
plot_boxplot(table, subjs) == IF subjs = <<>> THEN {"", "ValueError"} ELSE {""}

\* The exceptions (or "" for none) the plotting branch of run_pipeline can
\* end with for an answer.
plot_branch(choice, table, subjs, subj_df) ==
    CASE choice = "1" -> plot_histograms(table, subjs)
      [] choice = "2" -> plot_average_bar(subj_df)
      [] choice = "3" -> plot_boxplot(table, subjs)
      [] OTHER ->
           LET h == plot_histograms(table, subjs)
               a == plot_average_bar(subj_df)
               b == plot_boxplot(table, subjs)
           IN  (h \ {""}) \cup
               (IF "" \in h THEN (a \ {""}) \cup (IF "" \in a THEN b ELSE {})
                ELSE {})

\* at_risk_count as it would be with <= 50.
at_risk_count_inclusive(recs) ==
    Len(SelectSeq(recs, LAMBDA r : RGe(R(50), r.Average)))

\* len(students_df[students_df['Average'] < 50])
at_risk_count(recs) == Len(SelectSeq(recs, LAMBDA r : RLt(r.Average, R(50))))

\* generate_insights: what the four print calls show.
generate_insights(subj_df, recs) ==
    LET labels == [j \in DOMAIN subj_df |-> subj_df[j].Subject]
        means  == [j \in DOMAIN subj_df |-> subj_df[j].Mean]
        stds   == [j \in DOMAIN subj_df |-> subj_df[j].Std]
    IN  [Hardest        |-> pd_idx(labels, means, FALSE),
         Easiest        |-> pd_idx(labels, means, TRUE),
         MostConsistent |-> pd_idx(labels, stds, FALSE),
         AtRisk         |-> at_risk_count(recs)]

\* export_to_excel: the four sheets.
export_to_excel(recs, subj_df, top, bottom) ==
    [All_Students     |-> recs,
     Subject_Stats    |-> subj_df,
     Top_Students     |-> top,
     At_Risk_Students |-> bottom]

(***************************************************************************)
(* run_pipeline, one action per call.                                      *)
(***************************************************************************)
TypeOK ==
    /\ pc \in {"start", "loaded", "subjects", "cleaned", "metrics", "graded",
               "consistency", "strongweak", "substats", "selected", "plotted",
               "insights", "exported", "aborted"}
    /\ error \in {"", "ValueError", "KeyError"}
    /\ (pc = "aborted") = (error # "")

Init ==
    /\ csv \in CsvFiles
    /\ pc = "start"
    /\ df = <<>>
    /\ subjects = <<>>
    /\ students = <<>>
    /\ subject_stats = <<>>
    /\ top_students = <<>>
    /\ bottom_students = <<>>
    /\ insights = <<>>
    /\ excel = <<>>
    /\ error = ""

\* df = load_data()
LoadData ==
    /\ pc = "start"
    /\ df' = csv.rows
    /\ pc' = "loaded"
    /\ UNCHANGED <<csv, subjects, students, subject_stats, top_students,
                   bottom_students, insights, excel, error>>

\* subjects = get_subject_columns(df)
GetSubjectColumns ==
    /\ pc = "loaded"
    /\ subjects' = get_subject_columns(csv.columns)
    /\ pc' = "subjects"
    /\ UNCHANGED <<csv, df, students, subject_stats, top_students,
                   bottom_students, insights, excel, error>>

\* df = clean_data(df, subjects)
CleanData ==
    /\ pc = "subjects"
    /\ df' = clean_data(df, subjects)
    /\ pc' = "cleaned"
    /\ UNCHANGED <<csv, subjects, students, subject_stats, top_students,
                   bottom_students, insights, excel, error>>

\* students = student_metrics(df, subjects)
StudentMetrics ==
    /\ pc = "cleaned"
    /\ students' = student_metrics(df, subjects)
    /\ pc' = "metrics"
    /\ UNCHANGED <<csv, df, subjects, subject_stats, top_students,
                   bottom_students, insights, excel, error>>

\* students['Grade'] = students['Average'].apply(assign_grade)
AssignGrades ==
    /\ pc = "metrics"
    /\ students' = apply_grade(students)
    /\ pc' = "graded"
    /\ UNCHANGED <<csv, df, subjects, subject_stats, top_students,
                   bottom_students, insights, excel, error>>

\* students = student_consistency(students, subjects)
StudentConsistency ==
    /\ pc = "graded"
    /\ students' = student_consistency(students, subjects)
    /\ pc' = "consistency"
    /\ UNCHANGED <<csv, df, subjects, subject_stats, top_students,
                   bottom_students, insights, excel, error>>

\* students = strongest_weakest_subject(students, subjects)
StrongestWeakest ==
    /\ pc = "consistency"
    /\ students' = strongest_weakest_subject(students, subjects)
    /\ pc' = "strongweak"
    /\ UNCHANGED <<csv, df, subjects, subject_stats, top_students,
                   bottom_students, insights, excel, error>>

\* The same call raising ValueError on a row without any value.
StrongestWeakestRaises ==
    /\ pc = "consistency"
    /\ HasEmptyRow(students, subjects)
    /\ pc' = "aborted"
    /\ error' = "ValueError"
    /\ UNCHANGED <<csv, df, subjects, students, subject_stats, top_students,
                   bottom_students, insights, excel>>

\* subject_stats = subject_metrics(df, subjects)
SubjectMetrics ==
    /\ pc = "strongweak"
    /\ subject_stats' = subject_metrics(df, subjects)
    /\ pc' = "substats"
    /\ UNCHANGED <<csv, df, subjects, students, top_students,
                   bottom_students, insights, excel, error>>

\* top_students, bottom_students = get_top_bottom_students(students)
GetTopBottomStudents ==
    /\ pc = "substats"
    /\ \E tb \in get_top_bottom_students(students, top_n_default) :
         /\ top_students' = tb[1]
         /\ bottom_students' = tb[2]
    /\ pc' = "selected"
    /\ UNCHANGED <<csv, df, subjects, students, subject_stats, insights,
                   excel, error>>

\* choice = ask_plot_choice() and the branch it selects, drawing everything.
Plot ==
    /\ pc = "selected"
    /\ \E choice \in PlotChoices :
         "" \in plot_branch(choice, df, subjects, subject_stats)
    /\ pc' = "plotted"
    /\ UNCHANGED <<csv, df, subjects, students, subject_stats, top_students,
                   bottom_students, insights, excel, error>>

\* The same branch ending in an exception of a plotting function.
PlotRaises ==
    /\ pc = "selected"
    /\ \E choice \in PlotChoices :
         \E e \in plot_branch(choice, df, subjects, subject_stats) \ {""} :
            error' = e
    /\ pc' = "aborted"
    /\ UNCHANGED <<csv, df, subjects, students, subject_stats, top_students,
                   bottom_students, insights, excel>>

\* generate_insights(subject_stats, students)
GenerateInsights ==
    /\ pc = "plotted"
    /\ subject_stats # <<>>
    /\ insights' = generate_insights(subject_stats, students)
    /\ pc' = "insights"
    /\ UNCHANGED <<csv, df, subjects, students, subject_stats, top_students,
                   bottom_students, excel, error>>

\* The same call raising: subj_df['Mean'] is a KeyError on the frame of no
\* subject; idxmin / idxmax of a column of NaN only is a ValueError from
\* pandas 3.0 on.
GenerateInsightsRaises ==
    /\ pc = "plotted"
    /\ \/ /\ subject_stats = <<>>
          /\ error' = "KeyError"
       \/ /\ subject_stats # <<>>
          /\ \A j \in DOMAIN subject_stats : IsNaN(subject_stats[j].Mean)
          /\ error' = "ValueError"
    /\ pc' = "aborted"
    /\ UNCHANGED <<csv, df, subjects, students, subject_stats, top_students,
                   bottom_students, insights, excel>>

\* export_to_excel(students, subject_stats, top_students, bottom_students)
ExportToExcel ==
    /\ pc = "insights"
    /\ excel' = export_to_excel(students, subject_stats, top_students,
                                bottom_students)
    /\ pc' = "exported"
    /\ UNCHANGED <<csv, df, subjects, students, subject_stats, top_students,
                   bottom_students, insights, error>>

Next ==
    \/ LoadData
    \/ GetSubjectColumns
    \/ CleanData
    \/ StudentMetrics
    \/ AssignGrades
    \/ StudentConsistency
    \/ StrongestWeakest
    \/ StrongestWeakestRaises
    \/ SubjectMetrics
    \/ GetTopBottomStudents
    \/ Plot
    \/ PlotRaises
    \/ GenerateInsights
    \/ GenerateInsightsRaises
    \/ ExportToExcel

Spec == Init /\ [][Next]_vars

(***************************************************************************)
(* Positions of run_pipeline at which a stage's result is in place.  A run *)
(* that aborts does so after strongest_weakest_subject was called, and     *)
(* keeps what the earlier stages computed.                                 *)
(***************************************************************************)
Cleaned == pc \notin {"start", "loaded", "subjects"}

AfterMetrics == pc \notin {"start", "loaded", "subjects", "cleaned"}

AfterGrades == AfterMetrics /\ pc # "metrics"

AfterConsistency == AfterGrades /\ pc # "graded"

AfterStrongestWeakest ==
    pc \in {"strongweak", "substats", "selected", "plotted", "insights", "exported"}

AfterSelection == pc \in {"selected", "plotted", "insights", "exported"}

\* The number a cell text of the input file denotes, if it denotes one.
NumberOf ==
    [c \in {"40", " 60 ", "80", "90", "100"} |->
        CASE c = "40" -> 40 [] c = " 60 " -> 60 [] c = "80" -> 80
          [] c = "90" -> 90 [] OTHER -> 100]

\* The rows of the input file whose cell in column s denotes a number.
NumericRows(s) == {i \in DOMAIN csv.rows : csv.rows[i][s] \in DOMAIN NumberOf}

RECURSIVE SumOfCells(_, _)
\* The sum of the numbers in column s of the input file over the rows in S.
SumOfCells(S, s) ==
    IF S = {} THEN 0
    ELSE LET x == CHOOSE y \in S : TRUE
         IN  NumberOf[csv.rows[x][s]] + SumOfCells(S \ {x}, s)

\* C1: after student_metrics, Rank is the minimum-competition ranking by
\* Total descending: a greater Total has a smaller Rank, equal Totals have
\* equal Ranks, and each Rank is 1 plus the number of students with a
\* strictly greater Total (hence in 1..N).
C1_RankMinCompetition ==
    AfterMetrics =>
        \A a \in DOMAIN students :
            /\ students[a].Rank \in 1..Len(students)
            /\ students[a].Rank =
                 1 + Cardinality({c \in DOMAIN students :
                                    RGt(students[c].Total, students[a].Total)})
            /\ \A b \in DOMAIN students :
                 /\ RGt(students[a].Total, students[b].Total)
                      => students[a].Rank < students[b].Rank
                 /\ students[a].Total = students[b].Total
                      => students[a].Rank = students[b].Rank

\* Two students tied on the highest Total share rank 1 and the third has
\* rank 3: the gap after the tie group.
C1_Witness ==
    /\ pc = "metrics"
    /\ Len(students) = 3
    /\ students[1].Rank = 1 /\ students[2].Rank = 1 /\ students[3].Rank = 3
    /\ students[1].Total = students[2].Total
    /\ RGt(students[1].Total, students[3].Total)

\* C2: after clean_data, in every subject column with at least one numeric
\* cell, a cell that was numeric keeps its value and any other cell holds
\* the mean of the column's originally numeric cells only.
C2_ImputeColumnMean ==
    Cleaned =>
        \A s \in Range(subjects) :
            NumericRows(s) # {} =>
                \A i \in DOMAIN df :
                    LET cell == df[i][s]
                        sum  == SumOfCells(NumericRows(s), s)
                    IN  /\ cell.d > 0
                        /\ IF i \in NumericRows(s)
                           THEN cell.n = NumberOf[csv.rows[i][s]] * cell.d
                           ELSE cell.n * Cardinality(NumericRows(s)) = sum * cell.d

\* Math = [90, 60, "bad"] has become [90, 60, 75] while Sci is untouched.
C2_Witness ==
    /\ pc = "cleaned"
    /\ Len(df) = 3
    /\ csv.rows[3].Math = "bad"
    /\ df[1].Math = R(90) /\ df[2].Math = R(60) /\ df[3].Math = R(75)
    /\ df[3].Sci = R(100)

\* C3: a subject column without any numeric cell makes the run stop with an
\* error before student metrics or a report are produced, and after
\* clean_data no subject cell is missing or non-numeric.
C3_AllInvalidColumnIsAnError ==
    /\ (\E s \in Range(subjects) : csv.rows # <<>> /\ NumericRows(s) = {})
          => pc \in {"start", "loaded", "subjects", "aborted"} /\ students = <<>>
    /\ (Cleaned /\ pc # "aborted")
          => \A i \in DOMAIN df : \A s \in Range(subjects) : ~IsNaN(df[i][s])

\* C4: Consistency is the population standard deviation of the student's
\* own marks: its square times the number k of subjects is the sum of the
\* squared deviations of the marks from the student's Average.
C4_ConsistencyIsPopulationStd ==
    (AfterConsistency /\ subjects # <<>>) =>
        \A i \in DOMAIN students :
            LET marks == Marks(students[i], subjects)
            IN  Valid(marks) = marks =>
                  /\ ~IsNaN(students[i].Consistency)
                  /\ RMul(students[i].Consistency, R(Len(subjects)))
                       = SumPow(marks, students[i].Average, 2)

\* C5: when an identifier column is absent from the input the run aborts
\* before clean_data: no cleaning, metric or export step is reached.
C5_SchemaErrorAbortsBeforeCleaning ==
    ~(non_subjects \subseteq Range(csv.columns)) =>
        /\ pc \in {"start", "loaded", "subjects", "aborted"}
        /\ df = csv.rows \/ df = <<>>
        /\ students = <<>> /\ excel = <<>>

Min2(a, b) == IF a < b THEN a ELSE b

\* The claim of C6 about one of the two lists: its length, its order, the
\* students left out, and the original row order among equal Averages.
StableSelection(sel, ascending) ==
    LET before(x, y) == IF ascending THEN RGe(y, x) ELSE RGe(x, y)
        chosen == {sel[k].Index : k \in DOMAIN sel}
    IN  /\ Len(sel) = Min2(top_n_default, Len(students))
        /\ \A k \in DOMAIN sel : sel[k] = students[sel[k].Index]
        /\ \A k, l \in DOMAIN sel :
             k < l => /\ before(sel[k].Average, sel[l].Average)
                      /\ sel[k].Average = sel[l].Average
                           => sel[k].Index < sel[l].Index
        /\ \A k \in DOMAIN sel : \A o \in DOMAIN students \ chosen :
             before(sel[k].Average, students[o].Average)

\* C6: Top and Bottom have length min(N, student count), Top is ordered by
\* Average non-increasing and Bottom non-decreasing, nobody left out beats
\* a selected student, and students with equal Average keep their original
\* row order in both lists.
C6_TopBottomStableOrder ==
    AfterSelection =>
        /\ StableSelection(top_students, FALSE)
        /\ StableSelection(bottom_students, TRUE)

\* The band of a grade, D lowest.
Band(g) == CASE g = "A" -> 3 [] g = "B" -> 2 [] g = "C" -> 1 [] OTHER -> 0

\* C7: the stored Grade is the step function of the stored Average
\* (>= 90 A, >= 75 B, >= 60 C, below 60 D), and a higher Average never has
\* a lower band.
C7_GradeStepFunction ==
    AfterGrades =>
        \A i \in DOMAIN students :
            LET a == students[i].Average
            IN  /\ students[i].Grade \in {"A", "B", "C", "D"}
                /\ ~IsNaN(a) =>
                     /\ (a.n >= 90 * a.d) = (students[i].Grade = "A")
                     /\ (a.n >= 75 * a.d /\ a.n < 90 * a.d) = (students[i].Grade = "B")
                     /\ (a.n >= 60 * a.d /\ a.n < 75 * a.d) = (students[i].Grade = "C")
                     /\ (a.n < 60 * a.d) = (students[i].Grade = "D")
                /\ \A j \in DOMAIN students :
                     RGe(students[j].Average, a)
                        => Band(students[j].Grade) >= Band(students[i].Grade)

\* Students graded exactly on a boundary: Average 90 is an A, 75 a B.
C7_Witness ==
    /\ pc = "graded"
    /\ \E i, j \in DOMAIN students :
         /\ students[i].Average = R(90) /\ students[i].Grade = "A"
         /\ students[j].Average = R(75) /\ students[j].Grade = "B"

\* C8: the at-risk count generate_insights reports is the number of
\* students whose Average is strictly below 50; exactly 50 is not counted.
C8_AtRiskStrictlyBelow50 ==
    pc \in {"insights", "exported"} =>
        insights.AtRisk =
            Cardinality({i \in DOMAIN students :
                           /\ ~IsNaN(students[i].Average)
                           /\ students[i].Average.n < 50 * students[i].Average.d})

\* One student at exactly 50 and one below: the count is 1.
C8_Witness ==
    /\ pc = "insights"
    /\ Len(students) = 2
    /\ students[1].Average = R(50)
    /\ students[2].Average = R(40)
    /\ insights.AtRisk = 1

\* C9: Strongest_Subject is a subject holding the student's maximum mark and
\* Weakest_Subject one holding the minimum, the earliest such column in
\* both cases.
C9_StrongestWeakestAreExtremes ==
    (AfterStrongestWeakest /\ subjects # <<>>) =>
        \A i \in DOMAIN students :
            LET marks == Marks(students[i], subjects)
                first(label, better(_, _)) ==
                    \E j \in DOMAIN subjects :
                        /\ subjects[j] = label
                        /\ \A l \in DOMAIN subjects :
                             /\ better(marks[j], marks[l])
                             /\ marks[l] = marks[j] => j <= l
            IN  /\ first(students[i].Strongest_Subject, LAMBDA x, y : RGe(x, y))
                /\ first(students[i].Weakest_Subject, LAMBDA x, y : RGe(y, x))

DerivedFields ==
    {"Total", "Average", "Rank", "Grade", "Consistency", "Strongest_Subject",
     "Weakest_Subject"}

\* C10: at export every record of the All-Students, Top and Bottom sheets
\* carries all derived fields, the Top and Bottom records are the
\* All-Students records of the same rows, and the subject statistics of
\* every subject are in place.
C10_ExportSeesFinishedRecords ==
    pc = "exported" =>
        /\ excel.All_Students = students
        /\ \A i \in DOMAIN excel.All_Students :
             DerivedFields \subseteq DOMAIN excel.All_Students[i]
        /\ \A sel \in {excel.Top_Students, excel.At_Risk_Students} :
             /\ Len(sel) = Min2(top_n_default, Len(students))
             /\ \A k \in DOMAIN sel :
                  /\ DerivedFields \subseteq DOMAIN sel[k]
                  /\ sel[k] = excel.All_Students[sel[k].Index]
        /\ Len(excel.Subject_Stats) = Len(subjects)
        /\ insights # <<>>

\* An export of three students with both selections filled.
C10_Witness ==
    /\ pc = "exported"
    /\ Len(excel.All_Students) = 3
    /\ Len(excel.Top_Students) = 3
    /\ excel.Top_Students[1].Index # excel.At_Risk_Students[1].Index
====
